---------------------------- MODULE Spec2Model ----------------------------
(***************************************************************************)
(* A model of iongraph (src/src/main.rs): the tool that turns the ion.json *)
(* debug log of a JIT compiler into a text disassembly.                    *)
(*                                                                         *)
(* Text is a sequence of characters, each character a one-element string   *)
(* (the token "U+E9" stands for a character whose UTF-8 encoding takes two *)
(* bytes).  A JSON value is a record tagged by its type, as serde_json's   *)
(* Value: null, bool, num (an integer), float, str, array, object.         *)
(***************************************************************************)
EXTENDS Integers, Sequences, FiniteSets, TLC

VARIABLES
    pc,       \* the statement the run is at
    entry,    \* the function the run was started in (main, or one callee)
    file,     \* the input file: unreadable, malformed, or a JSON document
    iondata,  \* main's `iondata` / parse_graph's argument
    g,        \* locals of parse_graph
    p,        \* locals of parse_passes
    b,        \* locals of parse_blocks
    ins,      \* locals of parse_instructions
    ret,      \* the Option<String> the last finished call returned
    outfile,  \* the file at args.outfile
    stdout,   \* the diagnostics printed so far
    status,   \* the exit status of the process once it has ended
    first     \* the harness's record of the first of two runs

vars == <<pc, entry, file, iondata, g, p, b, ins, ret, outfile, stdout, status, first>>

----------------------------------------------------------------------------
(* Bounds of the model *)

MaxNodes == 5        \* array elements (functions, passes, blocks, leaves) of a document
MaxBlockNodes == 5   \* array elements of a block list given to parse_blocks
MaxInstrs == 2       \* instructions of a list given to parse_instructions
MaxOpLen == 2        \* characters of an opcode string

----------------------------------------------------------------------------
(* Text *)

Spaces(n) == [i \in 1..n |-> " "]

DigitChar(d) == <<"0", "1", "2", "3", "4", "5", "6", "7", "8", "9">>[d + 1]

RECURSIVE Digits(_)
Digits(n) == IF n < 10 THEN <<DigitChar(n)>>
             ELSE Digits(n \div 10) \o <<DigitChar(n % 10)>>

\* str::len(): the length in bytes of the UTF-8 encoding
ByteLenOfChar(c) == IF c = "U+E9" THEN 2 ELSE 1

RECURSIVE ByteLen(_)
ByteLen(s) == IF s = <<>> THEN 0 ELSE ByteLenOfChar(Head(s)) + ByteLen(Tail(s))

\* the number of characters, which is what a format width counts
CharCount(s) == Len(s)

IsPrefix(s, t) == Len(s) <= Len(t) /\ SubSeq(t, 1, Len(s)) = s

FunctionHeaderLit == <<"\n", "\n", "G", "r", "a", "p", "h", " ", "f", "o", "r", " ", "F", "u", "n", "c", "t", "i", "o", "n", ":", " ">>
PassHeaderLit == <<"\n", "\n", " ", " ", "A", "f", "t", "e", "r", " ", "I", "o", "n", " ", "P", "h", "a", "s", "e", " ">>
BlockHeaderLit == <<"\n", " ", " ", " ", " ", " ", " ", "B", "l", "o", "c", "k", "#">>
BlockLit == <<"B", "l", "o", "c", "k", "#">>
SuccessorLit == <<" ", " ", " ", " ", " ", " ", " ", " ", " ", " ", "S", "u", "c", "c", "e", "s", "s", "o", "r", ":", " ", "B", "l", "o", "c", "k", "#">>
SuccessorsTLit == <<" ", " ", " ", " ", " ", " ", " ", " ", " ", " ", "S", "u", "c", "c", "e", "s", "s", "o", "r", "s", ":", " ", "T", ":", "B", "l", "o", "c", "k", "#">>
SuccessorsFLit == <<" ", "F", ":", "B", "l", "o", "c", "k", "#">>
SuccessorsLit == <<"S", "u", "c", "c", "e", "s", "s", "o", "r", "s", ":", " ">>
InstrIndent == <<" ", " ", " ", " ", " ", " ", " ", " ", " ", " ">>
NullLit == <<"n", "u", "l", "l">>
TrueLit == <<"t", "r", "u", "e">>
FalseLit == <<"f", "a", "l", "s", "e">>

----------------------------------------------------------------------------
(* JSON values (serde_json::Value) *)

Null == [t |-> "null"]
Bool(x) == [t |-> "bool", v |-> x]
Num(k) == [t |-> "num", n |-> k]
Half(k) == [t |-> "float", n |-> k]     \* the number k.5
Str(x) == [t |-> "str", s |-> x]
Arr(x) == [t |-> "array", items |-> x]
Obj(x) == [t |-> "object", f |-> x]

None == [some |-> FALSE]
Some(x) == [some |-> TRUE, val |-> x]

\* value[key]: Null when value is no object or has no such key
Index(value, key) ==
    IF value.t = "object" /\ key \in DOMAIN value.f THEN value.f[key] ELSE Null

as_array(value) == IF value.t = "array" THEN Some(value.items) ELSE None

\* as_str().unwrap_or(""): a value that is no string read as the empty string
as_str_or_empty(value) == IF value.t = "str" THEN Some(value.s) ELSE Some(<<>>)

as_str(value) == IF value.t = "str" THEN Some(value.s) ELSE None

\* a "num" is an integer of the JSON text that fits 64 bits: serde_json reads
\* any larger one as a float
as_u64(value) == IF value.t = "num" /\ value.n >= 0 THEN Some(value.n) ELSE None

\* `{}` of a Value: its compact JSON text.  Scalars only; the strings of the
\* model hold no character that JSON escapes.
Display(value) ==
    CASE value.t = "null" -> NullLit
      [] value.t = "bool" -> (IF value.v THEN TrueLit ELSE FalseLit)
      [] value.t = "num" -> (IF value.n < 0 THEN <<"-">> \o Digits(-value.n)
                             ELSE Digits(value.n))
      [] value.t = "float" -> Digits(value.n) \o <<".", "5">>
      [] value.t = "str" -> <<"\"">> \o value.s \o <<"\"">>


----------------------------------------------------------------------------
(* Formatting *)

\* `{:>w}`: right-aligned in at least w characters, never truncated
PadLeft(s, w) == IF CharCount(s) >= w THEN s ELSE Spaces(w - CharCount(s)) \o s

\* `{:<w}`: left-aligned in at least w characters, never truncated
PadRight(s, w) == IF CharCount(s) >= w THEN s ELSE s \o Spaces(w - CharCount(s))

SpaceAt(s) == {k \in 1..Len(s) : s[k] = " "}

Min(S) == CHOOSE x \in S : \A y \in S : x <= y

Max(S) == CHOOSE x \in S : \A y \in S : x >= y

\* split_once as rsplit_once would do it: at the last space
rsplit_once(s) ==
    IF SpaceAt(s) = {} THEN None
    ELSE LET k == Max(SpaceAt(s))
         IN  Some([opcode |-> SubSeq(s, 1, k - 1), operand |-> SubSeq(s, k + 1, Len(s))])

\* str::split_once(" "): the text before and the text after the first space
split_once(s) ==
    IF SpaceAt(s) = {} THEN None
    ELSE LET k == Min(SpaceAt(s))
         IN  Some([opcode |-> SubSeq(s, 1, k - 1), operand |-> SubSeq(s, k + 1, Len(s))])

\* the match of lines 41-44 and 59-62
SplitOpcode(instruction) ==
    IF split_once(instruction).some THEN split_once(instruction).val
    ELSE [opcode |-> instruction, operand |-> <<>>]

IdWidth == 3
Gutter == 5

\* the format! of lines 64-66 with the widths passed without the gutter
FormatInstructionNoGutter(id, opcode, operand, type, opcode_len, operand_len) ==
    InstrIndent \o PadLeft(Digits(id), IdWidth) \o <<":", " ">>
        \o PadRight(opcode, opcode_len) \o <<" ">>
        \o PadRight(operand, operand_len) \o <<" ">>
        \o Display(type) \o <<"\n">>

\* the format! of lines 64-66
FormatInstruction(id, opcode, operand, type, opcode_len, operand_len) ==
    InstrIndent \o PadLeft(Digits(id), IdWidth) \o <<":", " ">>
        \o PadRight(opcode, opcode_len + Gutter) \o <<" ">>
        \o PadRight(operand, operand_len + Gutter) \o <<" ">>
        \o Display(type) \o <<"\n">>

\* the header with `func["name"].as_str().unwrap_or("")` for the name
FunctionHeaderAsStr(func) ==
    FunctionHeaderLit \o (IF as_str(Index(func, "name")).some
                          THEN as_str(Index(func, "name")).val ELSE <<>>)

\* the format! of line 126
FunctionHeader(func) == FunctionHeaderLit \o Display(Index(func, "name"))

\* the format! of line 107
PassHeader(pass) == PassHeaderLit \o Display(Index(pass, "name")) \o <<"\n", "\n">>

\* the format! of line 77
BlockHeader(block) == BlockHeaderLit \o Display(Index(block, "number")) \o <<"\n">>

RECURSIVE Join(_, _)
Join(parts, sep) ==
    IF parts = <<>> THEN <<>>
    ELSE IF Len(parts) = 1 THEN parts[1]
    ELSE parts[1] \o sep \o Join(Tail(parts), sep)

\* lines 84-96 with the two branch targets the wrong way round
SuccessorSummarySwapped(successors) ==
    IF Len(successors) = 1
    THEN SuccessorLit \o Display(successors[1]) \o <<"\n">>
    ELSE IF Len(successors) = 2
    THEN SuccessorsTLit \o Display(successors[2])
             \o SuccessorsFLit \o Display(successors[1]) \o <<"\n">>
    ELSE IF Len(successors) > 2
    THEN SuccessorsLit
             \o Join([k \in 1..Len(successors) |-> BlockLit \o Display(successors[k])], <<" ">>)
             \o <<"\n">>
    ELSE <<>>

\* lines 84-96: what parse_blocks appends for a block's successors
SuccessorSummary(successors) ==
    IF Len(successors) = 1
    THEN SuccessorLit \o Display(successors[1]) \o <<"\n">>
    ELSE IF Len(successors) = 2
    THEN SuccessorsTLit \o Display(successors[1])
             \o SuccessorsFLit \o Display(successors[2]) \o <<"\n">>
    ELSE IF Len(successors) > 2
    THEN SuccessorsLit
             \o Join([k \in 1..Len(successors) |-> BlockLit \o Display(successors[k])], <<" ">>)
             \o <<"\n">>
    ELSE <<>>

\* the text put in front of the buffer instead of behind it
Prepend(debugout, text) == text \o debugout

\* the buffer kept from the call before
KeepString(frame) == [frame EXCEPT !.i = 1]

\* `debugout += &text` (lines 64, 77, 80, 85, 87, 95, 107, 113, 126, 131)
AddAssign(debugout, text) == debugout \o text

\* `let mut debugout = String::new()` (lines 74, 104, 122) as a loop starts
NewString(frame) == [frame EXCEPT !.debugout = <<>>, !.i = 1]

\* the blocks of the `lir` tier read when the pass has one
MirBlocksOrLir(pass) ==
    IF as_array(Index(Index(pass, "lir"), "blocks")).some
    THEN as_array(Index(Index(pass, "lir"), "blocks"))
    ELSE as_array(Index(Index(pass, "mir"), "blocks"))

\* line 112: the blocks parse_passes reads
MirBlocks(pass) == as_array(Index(Index(pass, "mir"), "blocks"))

----------------------------------------------------------------------------
(* Calls and returns.  The call chain is fixed: main -> parse_graph ->      *)
(* parse_passes -> parse_blocks -> parse_instructions.                      *)

ReturnLabel(fn) ==
    CASE fn = "parse_instructions" -> "pb_after"
      [] fn = "parse_blocks" -> "pp_after"
      [] fn = "parse_passes" -> "pg_after"
      [] fn = "parse_graph" -> "main_check"

Return(fn, value) ==
    /\ ret' = value
    /\ pc' = IF entry = fn THEN "done" ELSE ReturnLabel(fn)

----------------------------------------------------------------------------
(* parse_instructions (lines 29-70) *)

\* the locals with the two widths kept from the call before
InstrLocalsKeepWidths(frame) == [frame EXCEPT !.debugout = <<>>, !.i = 1]

\* lines 31, 37, 38: the locals as the function starts
InstrLocals(frame) ==
    [frame EXCEPT !.debugout = <<>>, !.opcode_len = 0, !.operand_len = 0, !.i = 1]

pi_entry ==
    /\ pc = "pi_entry"
    /\ ins' = InstrLocals(ins)
    /\ pc' = "pi_pass1"
    /\ UNCHANGED <<entry, file, iondata, g, p, b, ret, outfile, stdout, status, first>>

\* lines 39-53: one iteration of the first loop, or its end
pi_pass1 ==
    /\ pc = "pi_pass1"
    /\ UNCHANGED <<entry, file, iondata, g, p, b, outfile, stdout, status, first>>
    /\ IF ins.i <= Len(ins.instructions)
       THEN LET instruction == as_str(Index(ins.instructions[ins.i], "opcode"))
            IN  IF ~instruction.some
                THEN /\ Return("parse_instructions", None)
                     /\ UNCHANGED ins
                ELSE LET parts == SplitOpcode(instruction.val)
                     IN  /\ ins' = [ins EXCEPT
                                !.opcode = parts.opcode,
                                !.operand = parts.operand,
                                !.opcode_len = IF ByteLen(parts.opcode) > @
                                               THEN ByteLen(parts.opcode) ELSE @,
                                !.operand_len = IF ByteLen(parts.operand) > @
                                                THEN ByteLen(parts.operand) ELSE @,
                                !.i = @ + 1]
                         /\ UNCHANGED <<pc, ret>>
       ELSE /\ ins' = [ins EXCEPT !.i = 1]
            /\ pc' = "pi_pass2"
            /\ UNCHANGED ret

\* lines 56-69: one iteration of the second loop, or the return
pi_pass2 ==
    /\ pc = "pi_pass2"
    /\ UNCHANGED <<entry, file, iondata, g, p, b, outfile, stdout, status, first>>
    /\ IF ins.i <= Len(ins.instructions)
       THEN LET instr == ins.instructions[ins.i]
                id == as_u64(Index(instr, "id"))
                instruction == as_str(Index(instr, "opcode"))
            IN  IF ~id.some \/ ~instruction.some
                THEN /\ Return("parse_instructions", None)
                     /\ UNCHANGED ins
                ELSE LET parts == SplitOpcode(instruction.val)
                     IN  /\ ins' = [ins EXCEPT
                                !.opcode = parts.opcode,
                                !.operand = parts.operand,
                                !.debugout = AddAssign(@, FormatInstruction(
                                    id.val, parts.opcode, parts.operand,
                                    Index(instr, "type"),
                                    ins.opcode_len, ins.operand_len)),
                                !.i = @ + 1]
                         /\ UNCHANGED <<pc, ret>>
       ELSE /\ Return("parse_instructions", Some(ins.debugout))
            /\ UNCHANGED ins

----------------------------------------------------------------------------
(* parse_blocks (lines 72-100) *)

pb_entry ==
    /\ pc = "pb_entry"
    /\ b' = NewString(b)
    /\ pc' = "pb_loop"
    /\ UNCHANGED <<entry, file, iondata, g, p, ins, ret, outfile, stdout, status, first>>

\* lines 76-80: the block's header and the call of parse_instructions
pb_loop ==
    /\ pc = "pb_loop"
    /\ UNCHANGED <<entry, file, iondata, g, p, outfile, stdout, status, first>>
    /\ IF b.i <= Len(b.blocks)
       THEN LET block == b.blocks[b.i]
                instructions == as_array(Index(block, "instructions"))
            IN  /\ b' = [b EXCEPT !.debugout = AddAssign(@, BlockHeader(block))]
                /\ IF ~instructions.some
                   THEN /\ Return("parse_blocks", None)
                        /\ UNCHANGED ins
                   ELSE /\ ins' = [ins EXCEPT !.instructions = instructions.val]
                        /\ pc' = "pi_entry"
                        /\ UNCHANGED ret
       ELSE /\ Return("parse_blocks", Some(b.debugout))
            /\ UNCHANGED <<b, ins>>

\* lines 80-96: the instructions' text, then the successor summary
pb_after ==
    /\ pc = "pb_after"
    /\ UNCHANGED <<entry, file, iondata, g, p, ins, outfile, stdout, status, first>>
    /\ IF ~ret.some
       THEN /\ Return("parse_blocks", None)
            /\ UNCHANGED b
       ELSE LET successors == as_array(Index(b.blocks[b.i], "successors"))
            IN  IF ~successors.some
                THEN /\ b' = [b EXCEPT !.debugout = AddAssign(@, ret.val)]
                     /\ Return("parse_blocks", None)
                ELSE /\ b' = [b EXCEPT
                            !.debugout = AddAssign(AddAssign(@, ret.val),
                                                   SuccessorSummary(successors.val)),
                            !.i = @ + 1]
                     /\ pc' = "pb_loop"
                     /\ UNCHANGED ret

----------------------------------------------------------------------------
(* parse_passes (lines 102-117) *)

pp_entry ==
    /\ pc = "pp_entry"
    /\ p' = NewString(p)
    /\ pc' = "pp_loop"
    /\ UNCHANGED <<entry, file, iondata, g, b, ins, ret, outfile, stdout, status, first>>

\* lines 106-113: the pass's header and the call of parse_blocks
pp_loop ==
    /\ pc = "pp_loop"
    /\ UNCHANGED <<entry, file, iondata, g, ins, outfile, stdout, status, first>>
    /\ IF p.i <= Len(p.passes)
       THEN LET pass == p.passes[p.i]
                mirblocks == MirBlocks(pass)
            IN  /\ p' = [p EXCEPT !.debugout = AddAssign(@, PassHeader(pass))]
                /\ IF ~mirblocks.some
                   THEN /\ Return("parse_passes", None)
                        /\ UNCHANGED b
                   ELSE /\ b' = [b EXCEPT !.blocks = mirblocks.val]
                        /\ pc' = "pb_entry"
                        /\ UNCHANGED ret
       ELSE /\ Return("parse_passes", Some(p.debugout))
            /\ UNCHANGED <<p, b>>

\* line 113: `debugout += &parse_blocks(mirblocks)?`
pp_after ==
    /\ pc = "pp_after"
    /\ UNCHANGED <<entry, file, iondata, g, b, ins, outfile, stdout, status, first>>
    /\ IF ~ret.some
       THEN /\ Return("parse_passes", None)
            /\ UNCHANGED p
       ELSE /\ p' = [p EXCEPT !.debugout = AddAssign(@, ret.val), !.i = @ + 1]
            /\ pc' = "pp_loop"
            /\ UNCHANGED ret

----------------------------------------------------------------------------
(* parse_graph (lines 119-135) *)

\* lines 122 and 125: the buffer, and the array the loop runs over
pg_entry ==
    /\ pc = "pg_entry"
    /\ UNCHANGED <<entry, file, iondata, p, b, ins, outfile, stdout, status, first>>
    /\ LET functions == as_array(Index(iondata, "functions"))
       IN  IF ~functions.some
           THEN /\ g' = NewString(g)
                /\ Return("parse_graph", None)
           ELSE /\ g' = [NewString(g) EXCEPT !.functions = functions.val]
                /\ pc' = "pg_loop"
                /\ UNCHANGED ret

\* lines 125-131: the function's header and the call of parse_passes
pg_loop ==
    /\ pc = "pg_loop"
    /\ UNCHANGED <<entry, file, iondata, b, ins, outfile, stdout, status, first>>
    /\ IF g.i <= Len(g.functions)
       THEN LET func == g.functions[g.i]
                passes == as_array(Index(func, "passes"))
            IN  /\ g' = [g EXCEPT !.debugout = AddAssign(@, FunctionHeader(func))]
                /\ IF ~passes.some
                   THEN /\ Return("parse_graph", None)
                        /\ UNCHANGED p
                   ELSE /\ p' = [p EXCEPT !.passes = passes.val]
                        /\ pc' = "pp_entry"
                        /\ UNCHANGED ret
       ELSE /\ Return("parse_graph", Some(g.debugout))
            /\ UNCHANGED <<g, p>>

\* line 131: `debugout += &parse_passes(passes)?`
pg_after ==
    /\ pc = "pg_after"
    /\ UNCHANGED <<entry, file, iondata, p, b, ins, outfile, stdout, status, first>>
    /\ IF ~ret.some
       THEN /\ Return("parse_graph", None)
            /\ UNCHANGED g
       ELSE /\ g' = [g EXCEPT !.debugout = AddAssign(@, ret.val), !.i = @ + 1]
            /\ pc' = "pg_loop"
            /\ UNCHANGED ret

----------------------------------------------------------------------------
(* main (lines 153-171), deserialize_json (16-27) and unwrap! (4-14).       *)
(* The run starts with the arguments parsed (line 155).                     *)

\* std::process::exit(code): the status the parent sees is the low byte
ExitStatus(code) == code % 256

\* the diagnostic printed, then exit(0)
DieZero(message) ==
    /\ stdout' = Append(stdout, message)
    /\ status' = <<ExitStatus(0)>>
    /\ pc' = "exit"

\* lines 9-10 and 163-164: print the diagnostic (here without the error's own
\* text, which the environment decides), exit(-1)
Die(message) ==
    /\ stdout' = Append(stdout, message)
    /\ status' = <<ExitStatus(-1)>>
    /\ pc' = "exit"

\* lines 18-20: std::fs::read_to_string
main_read ==
    /\ pc = "main_read"
    /\ UNCHANGED <<entry, file, iondata, g, p, b, ins, ret, outfile, first>>
    /\ IF file.kind = "unreadable"
       THEN Die("[-] Not able to read json file")
       ELSE /\ pc' = "main_parse"
            /\ UNCHANGED <<stdout, status>>

\* lines 22-26: serde_json::from_str
main_parse ==
    /\ pc = "main_parse"
    /\ UNCHANGED <<entry, file, g, p, b, ins, ret, outfile, first>>
    /\ IF file.kind = "malformed"
       THEN /\ Die("[-] Not able to parse ion.json")
            /\ UNCHANGED iondata
       ELSE /\ iondata' = file.doc
            /\ pc' = "main_format"
            /\ UNCHANGED <<stdout, status>>

\* line 160: the call of parse_graph
main_format ==
    /\ pc = "main_format"
    /\ pc' = "pg_entry"
    /\ UNCHANGED <<entry, file, iondata, g, p, b, ins, ret, outfile, stdout, status, first>>

\* lines 160-165: the result of parse_graph
main_check ==
    /\ pc = "main_check"
    /\ UNCHANGED <<entry, file, iondata, g, p, b, ins, ret, outfile, first>>
    /\ IF ret.some
       THEN /\ pc' = "main_write"
            /\ UNCHANGED <<stdout, status>>
       ELSE Die("[-] Invalid ion logs json file encountered")

\* what a failed std::fs::write may leave: the file as it was (it could not be
\* opened) or created and cut short (the write itself failed)
FailedWrite(old, data) == {old, [exists |-> TRUE, data |-> <<>>]}

\* lines 167-171: std::fs::write, then the end of main
main_write ==
    /\ pc = "main_write"
    /\ UNCHANGED <<entry, file, iondata, g, p, b, ins, ret, first>>
    /\ \E ok \in BOOLEAN :
          IF ok
          THEN /\ outfile' = [exists |-> TRUE, data |-> ret.val]
               /\ status' = <<ExitStatus(0)>>
               /\ pc' = "exit"
               /\ UNCHANGED stdout
          ELSE /\ outfile' \in FailedWrite(outfile, ret.val)
               /\ Die("[-] unable to write output")

----------------------------------------------------------------------------
(* A harness that runs parse_graph a second time, on a document that        *)
(* differs from the first at most in the `lir` of its passes.               *)

With(object, key, value) ==
    Obj([k \in DOMAIN object.f \cup {key} |-> IF k = key THEN value ELSE object.f[k]])

Without(object, key) ==
    Obj([k \in DOMAIN object.f \ {key} |-> object.f[k]])

\* `value` with the `lir` of every pass set to `lir`
SetLir(value, lir) ==
    LET functions == as_array(Index(value, "functions"))
        NewFunc(func) ==
            LET passes == as_array(Index(func, "passes"))
                NewPass(pass) == IF pass.t = "object" THEN With(pass, "lir", lir) ELSE pass
            IN  IF ~passes.some THEN func
                ELSE With(func, "passes",
                          Arr([k \in 1..Len(passes.val) |-> NewPass(passes.val[k])]))
    IN  IF ~functions.some THEN value
        ELSE With(value, "functions",
                  Arr([k \in 1..Len(functions.val) |-> NewFunc(functions.val[k])]))

LirBlock == Obj([number |-> Num(9), instructions |-> Num(0)])

LirValues == {Null, Str(<<"a">>), Obj([blocks |-> Arr(<<LirBlock>>)])}

rerun ==
    /\ pc = "done"
    /\ entry = "parse_graph"
    /\ ~first.ran
    /\ first' = [ran |-> TRUE, doc |-> iondata, ret |-> ret]
    /\ \E same \in BOOLEAN :
          IF same THEN UNCHANGED iondata
          ELSE \E lir \in LirValues : iondata' = SetLir(iondata, lir)
    /\ pc' = "pg_entry"
    /\ UNCHANGED <<entry, file, g, p, b, ins, ret, outfile, stdout, status>>

----------------------------------------------------------------------------
(* The inputs of the model *)

\* the k-th instruction of a block of a generated document
CanonInstr(k) ==
    Obj([id |-> Num(k - 1),
         opcode |-> Str(IF k % 2 = 1 THEN <<"a", " ", "b">> ELSE <<"c", "c">>),
         type |-> Str(<<"T">>)])

MkBlock(idx, ni, ns) ==
    Obj([number |-> Num(idx - 1),
         instructions |-> Arr([k \in 1..ni |-> CanonInstr(k)]),
         successors |-> Arr([k \in 1..ns |-> Num(idx + k - 1)])])

MkPass(idx, blocks) ==
    Obj([name |-> Str(<<"p", DigitChar(idx)>>), mir |-> Obj([blocks |-> Arr(blocks)])])

MkFunction(idx, passes) ==
    Obj([name |-> Str(<<"f", DigitChar(idx)>>), passes |-> Arr(passes)])

MkDoc(functions) == Obj([functions |-> Arr(functions)])

\* Tree(level, k, idx): the functions (level 1), passes (2) or blocks (3) at
\* index idx that hold exactly k array elements, themselves included;
\* Forest(level, n, idx): the lists of them that hold exactly n.
RECURSIVE Forest(_, _, _), Tree(_, _, _)
Tree(level, k, idx) ==
    CASE level = 3 -> {MkBlock(idx, ni, k - 1 - ni) : ni \in 0..(k - 1)}
      [] level = 2 -> {MkPass(idx, blocks) : blocks \in Forest(3, k - 1, 1)}
      [] level = 1 -> {MkFunction(idx, passes) : passes \in Forest(2, k - 1, 1)}

Forest(level, n, idx) ==
    IF n = 0 THEN {<<>>}
    ELSE UNION {{<<t>> \o r : t \in Tree(level, k, idx), r \in Forest(level, n - k, idx + 1)}
                : k \in 1..n}

\* the well-formed documents of at most MaxNodes array elements
Skeletons == UNION {{MkDoc(functions) : functions \in Forest(1, n, 1)} : n \in 0..MaxNodes}

\* one object changed at one key: the key removed, or given another value
Changed(object, changes) ==
    {Without(object, k) : k \in DOMAIN object.f}
        \cup {With(object, c[1], c[2]) : c \in changes}
        \cup {Num(1)}

DocChanges == {<<"functions", Null>>, <<"functions", Str(<<"a">>)>>}

FunctionChanges ==
    {<<"name", Null>>, <<"name", Num(5)>>, <<"name", Bool(TRUE)>>,
     <<"passes", Null>>, <<"passes", Num(2)>>}

PassChanges ==
    {<<"name", Null>>, <<"name", Half(1)>>,
     <<"mir", Null>>, <<"mir", Obj([blocks |-> Str(<<"a">>)])>>,
     <<"mir", Obj([other |-> Arr(<<>>)])>>,
     <<"lir", Null>>, <<"lir", Obj([blocks |-> Arr(<<LirBlock>>)])>>}

BlockChanges ==
    {<<"number", Null>>, <<"number", Str(<<"b">>)>>,
     <<"instructions", Null>>, <<"instructions", Obj([id |-> Num(0)])>>,
     <<"successors", Null>>, <<"successors", Num(1)>>}

InstrChanges ==
    {<<"id", Null>>, <<"id", Num(-1)>>, <<"id", Half(2)>>, <<"id", Str(<<"7">>)>>,
     <<"opcode", Null>>, <<"opcode", Num(3)>>,
     <<"type", Null>>, <<"type", Num(4)>>, <<"type", Bool(FALSE)>>}

Functions(doc) == doc.f.functions.items
Passes(func) == func.f.passes.items
Blocks(pass) == pass.f.mir.f.blocks.items
Instructions(block) == block.f.instructions.items

\* the documents that differ from the well-formed document `doc` in one object
OneChange(doc) ==
    Changed(doc, DocChanges)
    \cup UNION {{[doc EXCEPT !.f.functions.items[fi] = x]
                    : x \in Changed(Functions(doc)[fi], FunctionChanges)}
                : fi \in DOMAIN Functions(doc)}
    \cup UNION {UNION {{[doc EXCEPT !.f.functions.items[fi].f.passes.items[pi] = x]
                    : x \in Changed(Passes(Functions(doc)[fi])[pi], PassChanges)}
                : pi \in DOMAIN Passes(Functions(doc)[fi])}
                : fi \in DOMAIN Functions(doc)}
    \cup UNION {UNION {UNION {{[doc EXCEPT !.f.functions.items[fi].f.passes.items[pi]
                                              .f.mir.f.blocks.items[bi] = x]
                    : x \in Changed(Blocks(Passes(Functions(doc)[fi])[pi])[bi], BlockChanges)}
                : bi \in DOMAIN Blocks(Passes(Functions(doc)[fi])[pi])}
                : pi \in DOMAIN Passes(Functions(doc)[fi])}
                : fi \in DOMAIN Functions(doc)}
    \cup UNION {UNION {UNION {UNION {{[doc EXCEPT !.f.functions.items[fi].f.passes.items[pi]
                                              .f.mir.f.blocks.items[bi]
                                              .f.instructions.items[ii] = x]
                    : x \in Changed(Instructions(Blocks(Passes(Functions(doc)[fi])[pi])[bi])[ii],
                                    InstrChanges)}
                : ii \in DOMAIN Instructions(Blocks(Passes(Functions(doc)[fi])[pi])[bi])}
                : bi \in DOMAIN Blocks(Passes(Functions(doc)[fi])[pi])}
                : pi \in DOMAIN Passes(Functions(doc)[fi])}
                : fi \in DOMAIN Functions(doc)}

\* the documents main and parse_graph are run on
Docs == Skeletons \cup UNION {OneChange(doc) : doc \in Skeletons}

Files == {[kind |-> "unreadable"], [kind |-> "malformed"]}
             \cup {[kind |-> "json", doc |-> doc] : doc \in Docs}

OutFiles == {[exists |-> FALSE, data |-> <<>>], [exists |-> TRUE, data |-> <<"o", "l", "d">>]}

\* the block lists parse_blocks is run on
BlockInstrs ==
    {Obj([id |-> Num(3), opcode |-> Str(<<"a">>), type |-> Str(<<"T">>)]),
     Obj([id |-> Num(14), opcode |-> Str(<<"b", "b", " ", "c">>), type |-> Null]),
     Obj([id |-> Num(15), opcode |-> Str(<<"d", " ", "e", " ", "f">>), type |-> Num(2)]),
     Obj([id |-> Num(2000), opcode |-> Str(<<"U+E9", "g", "g", "g">>), type |-> Bool(TRUE)])}

SuccValues == {Num(1), Str(<<"x">>)}

RichBlocks(k) ==
    UNION {{Obj([number |-> Num(k), instructions |-> Arr(il), successors |-> Arr(sl)])
               : il \in [1..ni -> BlockInstrs], sl \in [1..(k - 1 - ni) -> SuccValues]}
           : ni \in 0..(k - 1)}

RECURSIVE RichForest(_)
RichForest(n) ==
    IF n = 0 THEN {<<>>}
    ELSE UNION {{<<t>> \o r : t \in RichBlocks(k), r \in RichForest(n - k)} : k \in 1..n}

BlockLists == UNION {RichForest(n) : n \in 0..MaxBlockNodes}

\* the instruction lists parse_instructions is run on
OpChars == {"a", " ", "U+E9"}

Opcodes == UNION {[1..n -> OpChars] : n \in 0..MaxOpLen}

Ids == {Num(0), Num(42), Num(999), Num(1000), Num(12345)}

Types == {Null, Str(<<"T">>)}

RichInstrs ==
    {Obj([id |-> Num(7), opcode |-> Str(s), type |-> Str(<<"T">>)]) : s \in Opcodes}
    \cup {Obj([id |-> i, opcode |-> Str(<<"a", " ", "b", " ", "c">>), type |-> t])
             : i \in Ids, t \in Types}
    \cup {Obj([id |-> Num(-1), opcode |-> Str(<<"a">>), type |-> Null]),
          Obj([id |-> Num(1), type |-> Null])}

InstrLists == UNION {[1..n -> RichInstrs] : n \in 0..MaxInstrs}

----------------------------------------------------------------------------
(* Specifications *)

g0 == [functions |-> <<>>, debugout |-> <<>>, i |-> 1]
p0 == [passes |-> <<>>, debugout |-> <<>>, i |-> 1]
b0 == [blocks |-> <<>>, debugout |-> <<>>, i |-> 1]
ins0 == [instructions |-> <<>>, debugout |-> <<>>, i |-> 1,
         opcode_len |-> 0, operand_len |-> 0, opcode |-> <<>>, operand |-> <<>>]

Start(fn, label) ==
    /\ entry = fn
    /\ pc = label
    /\ ret = None
    /\ stdout = <<>>
    /\ status = <<>>
    /\ first = [ran |-> FALSE]

parse_instructions == pi_entry \/ pi_pass1 \/ pi_pass2
parse_blocks == pb_entry \/ pb_loop \/ pb_after
parse_passes == pp_entry \/ pp_loop \/ pp_after
parse_graph == pg_entry \/ pg_loop \/ pg_after
main == main_read \/ main_parse \/ main_format \/ main_check \/ main_write

\* the program: main on an input file
Init ==
    /\ Start("main", "main_read")
    /\ file \in Files
    /\ outfile \in OutFiles
    /\ iondata = Null
    /\ g = g0 /\ p = p0 /\ b = b0 /\ ins = ins0

Next == main \/ parse_graph \/ parse_passes \/ parse_blocks \/ parse_instructions

Spec == Init /\ [][Next]_vars

\* parse_graph, run twice
InitTwice ==
    /\ Start("parse_graph", "pg_entry")
    /\ file = [kind |-> "none"]
    /\ outfile = [exists |-> FALSE, data |-> <<>>]
    /\ iondata \in Docs
    /\ g = g0 /\ p = p0 /\ b = b0 /\ ins = ins0

NextTwice == parse_graph \/ parse_passes \/ parse_blocks \/ parse_instructions \/ rerun

SpecTwice == InitTwice /\ [][NextTwice]_vars

\* parse_blocks on a list of blocks
InitBlocks ==
    /\ Start("parse_blocks", "pb_entry")
    /\ file = [kind |-> "none"]
    /\ outfile = [exists |-> FALSE, data |-> <<>>]
    /\ iondata = Null
    /\ b \in {[b0 EXCEPT !.blocks = blocks] : blocks \in BlockLists}
    /\ g = g0 /\ p = p0 /\ ins = ins0

NextBlocks == parse_blocks \/ parse_instructions

SpecBlocks == InitBlocks /\ [][NextBlocks]_vars

\* parse_instructions on a list of instructions
InitInstr ==
    /\ Start("parse_instructions", "pi_entry")
    /\ file = [kind |-> "none"]
    /\ outfile = [exists |-> FALSE, data |-> <<>>]
    /\ iondata = Null
    /\ ins \in {[ins0 EXCEPT !.instructions = instructions] : instructions \in InstrLists}
    /\ g = g0 /\ p = p0 /\ b = b0

NextInstr == parse_instructions

SpecInstr == InitInstr /\ [][NextInstr]_vars

----------------------------------------------------------------------------
(* What the claims speak of, stated without the program's own steps *)

HasSpace(s) == \E k \in 1..Len(s) : s[k] = " "

\* the text before the first space of s, or s when it has none
Mnemonic(s) ==
    CHOOSE m \in {SubSeq(s, 1, k) : k \in 0..Len(s)} :
        ~HasSpace(m) /\ (Len(m) = Len(s) \/ s[Len(m) + 1] = " ")

\* the text after the first space of s, or nothing when it has none
Operand(s) ==
    IF Len(Mnemonic(s)) = Len(s) THEN <<>> ELSE SubSeq(s, Len(Mnemonic(s)) + 2, Len(s))

NewlineAt(t) == {k \in 1..Len(t) : t[k] = "\n"}

\* the lines of a text, each without the newline that ends it
RECURSIVE Lines(_)
Lines(t) ==
    IF t = <<>> THEN <<>>
    ELSE IF NewlineAt(t) = {} THEN <<t>>
    ELSE <<SubSeq(t, 1, Min(NewlineAt(t)) - 1)>> \o Lines(SubSeq(t, Min(NewlineAt(t)) + 1, Len(t)))

Suffix(t, n) == SubSeq(t, Len(t) - n + 1, Len(t))

OpcodeOf(instr) == instr.f.opcode.s
IdOf(instr) == instr.f.id.n

\* the width of the id field of a line: three characters, or all its digits
IdFieldWidth(id) == IF Len(Digits(id)) > 3 THEN Len(Digits(id)) ELSE 3

Padded(s, w) == s \o Spaces(w - Len(s))

MaxOf(S) == IF S = {} THEN 0 ELSE Max(S)

\* the instructions parse_instructions has written a line for
Emitted == IF pc = "pi_pass2" THEN ins.i - 1 ELSE 0

----------------------------------------------------------------------------
(* C4: in both loops of parse_instructions the opcode is split at its      *)
(* first space only: the mnemonic holds no space, mnemonic + " " + operand *)
(* is the opcode when it holds a space, and otherwise the mnemonic is the  *)
(* opcode and the operand is empty; the widths cover both parts and the    *)
(* line written starts its mnemonic field with that mnemonic.              *)
C4_SplitAtFirstSpace ==
    (pc \in {"pi_pass1", "pi_pass2"} /\ ins.i >= 2) =>
        LET s == OpcodeOf(ins.instructions[ins.i - 1])
        IN  /\ ~HasSpace(ins.opcode)
            /\ IF HasSpace(s)
               THEN ins.opcode \o <<" ">> \o ins.operand = s
               ELSE ins.opcode = s /\ ins.operand = <<>>
            /\ ins.opcode_len >= ByteLen(ins.opcode)
            /\ ins.operand_len >= ByteLen(ins.operand)
            /\ pc = "pi_pass2" =>
                  LET line == Lines(ins.debugout)[ins.i - 1]
                      from == 10 + IdFieldWidth(IdOf(ins.instructions[ins.i - 1])) + 2
                  IN  SubSeq(line, from + 1, from + Len(ins.opcode) + 1)
                          = ins.opcode \o <<" ">>

\* the second loop has split an opcode with two spaces: the operand keeps one
C4_Witness ==
    /\ pc = "pi_pass2"
    /\ ins.i >= 2
    /\ ins.opcode = <<"a">>
    /\ ins.operand = <<"b", " ", "c">>

----------------------------------------------------------------------------
(* The layout of an instruction line *)

LineLayout(line, instr, opw, orw) ==
    LET id == IdOf(instr)
        w == IdFieldWidth(id)
        mn == Mnemonic(OpcodeOf(instr))
        op == Operand(OpcodeOf(instr))
        ty == Display(Index(instr, "type"))
    IN  /\ Len(line) = 10 + w + 2 + (opw + 5) + 1 + (orw + 5) + 1 + Len(ty)
        /\ SubSeq(line, 1, 10) = Spaces(10)
        /\ SubSeq(line, 11, 10 + w) = Spaces(w - Len(Digits(id))) \o Digits(id)
        /\ SubSeq(line, 11 + w, 12 + w) = <<":", " ">>
        /\ SubSeq(line, 13 + w, 12 + w + opw + 5) = Padded(mn, opw + 5)
        /\ line[13 + w + opw + 5] = " "
        /\ SubSeq(line, 14 + w + opw + 5, 13 + w + opw + 5 + orw + 5) = Padded(op, orw + 5)
        /\ line[14 + w + opw + 5 + orw + 5] = " "
        /\ SubSeq(line, 15 + w + opw + 5 + orw + 5, Len(line)) = ty
        /\ id < 1000 =>
              /\ SubSeq(line, 15 + 1, 15 + Len(mn)) = mn
              /\ SubSeq(line, 21 + opw + 1, 21 + opw + Len(op)) = op
              /\ SubSeq(line, 27 + opw + orw + 1, Len(line)) = ty

(* C9: every instruction line is 10 spaces, the id right-aligned in at     *)
(* least 3 characters (never cut), ": ", the mnemonic in opcode_width + 5  *)
(* characters, a space, the operand in operand_width + 5 characters, a     *)
(* space, the type; so with an id below 1000 the mnemonic starts at offset *)
(* 15, the operand at 21 + opcode_width, the type at 27 + opcode_width +   *)
(* operand_width.                                                          *)
C9_LineLayout ==
    pc = "pi_pass2" =>
        /\ Len(Lines(ins.debugout)) = Emitted
        /\ ins.debugout # <<>> => ins.debugout[Len(ins.debugout)] = "\n"
        /\ \A k \in 1..Emitted :
              LineLayout(Lines(ins.debugout)[k], ins.instructions[k],
                         ins.opcode_len, ins.operand_len)

\* two lines written, one with an id of four digits or more, one below 1000
C9_Witness ==
    /\ pc = "pi_pass2"
    /\ Emitted = 2
    /\ IdOf(ins.instructions[1]) >= 1000
    /\ IdOf(ins.instructions[2]) < 1000
    /\ ins.opcode_len > 0

----------------------------------------------------------------------------
(* Column widths *)

MnemonicWidth(instructions) ==
    MaxOf({ByteLen(Mnemonic(OpcodeOf(instructions[k]))) : k \in DOMAIN instructions})

OperandWidth(instructions) ==
    MaxOf({ByteLen(Operand(OpcodeOf(instructions[k]))) : k \in DOMAIN instructions})

(* C5: the widths are those of the block at hand: opcode_width is the      *)
(* longest mnemonic and operand_width the longest operand of its           *)
(* instructions (0 for none), whatever the other blocks hold, and every    *)
(* line of the block has its mnemonic in exactly opcode_width + 5          *)
(* characters and its operand in exactly operand_width + 5, none cut.      *)
C5_WidthsPerBlock ==
    pc = "pi_pass2" =>
        LET instructions == Instructions(b.blocks[b.i])
            opw == MnemonicWidth(instructions)
            orw == OperandWidth(instructions)
        IN  /\ ins.opcode_len = opw
            /\ ins.operand_len = orw
            /\ \A k \in 1..Emitted :
                  LET line == Lines(ins.debugout)[k]
                      from == 10 + IdFieldWidth(IdOf(instructions[k])) + 2
                      mn == Mnemonic(OpcodeOf(instructions[k]))
                      op == Operand(OpcodeOf(instructions[k]))
                  IN  /\ Len(mn) <= opw + 5 /\ Len(op) <= orw + 5
                      /\ SubSeq(line, from + 1, from + opw + 5) = Padded(mn, opw + 5)
                      /\ SubSeq(line, from + opw + 5 + 2, from + opw + 5 + 1 + orw + 5)
                             = Padded(op, orw + 5)

\* the second block's line is written, and the first block's mnemonics and
\* operands were longer than any of the second
C5_Witness ==
    /\ pc = "pi_pass2"
    /\ b.i = 2
    /\ Emitted >= 1
    /\ MnemonicWidth(Instructions(b.blocks[1])) > MnemonicWidth(Instructions(b.blocks[2]))
    /\ OperandWidth(Instructions(b.blocks[1])) > OperandWidth(Instructions(b.blocks[2]))

----------------------------------------------------------------------------
(* Successor summaries *)

BlockRef(value) == <<"B", "l", "o", "c", "k", "#">> \o Display(value)

RECURSIVE BlockRefs(_)
BlockRefs(values) ==
    IF Len(values) = 1 THEN BlockRef(values[1])
    ELSE BlockRef(Head(values)) \o <<" ">> \o BlockRefs(Tail(values))

SummaryFor(successors) ==
    CASE Len(successors) = 0 -> <<>>
      [] Len(successors) = 1 ->
            Spaces(10) \o <<"S", "u", "c", "c", "e", "s", "s", "o", "r", ":", " ">>
                \o BlockRef(successors[1]) \o <<"\n">>
      [] Len(successors) = 2 ->
            Spaces(10) \o <<"S", "u", "c", "c", "e", "s", "s", "o", "r", "s", ":", " ">>
                \o <<"T", ":">> \o BlockRef(successors[1])
                \o <<" ", "F", ":">> \o BlockRef(successors[2]) \o <<"\n">>
      [] Len(successors) >= 3 ->
            <<"S", "u", "c", "c", "e", "s", "s", "o", "r", "s", ":", " ">>
                \o BlockRefs(successors) \o <<"\n">>

(* C3: when parse_blocks has finished a block, its text ends with the      *)
(* block's header, its instruction lines and the successor summary its     *)
(* number n of successors decides: nothing for 0; for 1 the line           *)
(* `Successor: Block#s0` behind 10 spaces; for 2 the line `Successors:     *)
(* T:Block#s0 F:Block#s1` behind 10 spaces, the first entry under T and    *)
(* the second under F; for 3 or more the unindented line `Successors: `    *)
(* with Block#si for every entry in order, joined by single spaces.        *)
C3_SuccessorSummary ==
    (pc = "pb_loop" /\ b.i >= 2) =>
        LET block == b.blocks[b.i - 1]
            end == BlockHeader(block) \o ret.val \o SummaryFor(block.f.successors.items)
        IN  /\ Len(b.debugout) >= Len(end)
            /\ Suffix(b.debugout, Len(end)) = end

\* a block with instructions and two unlike successors has been finished
C3_Witness ==
    /\ pc = "pb_loop"
    /\ b.i >= 2
    /\ ret.some /\ ret.val # <<>>
    /\ Len(b.blocks[b.i - 1].f.successors.items) = 2
    /\ b.blocks[b.i - 1].f.successors.items[1] # b.blocks[b.i - 1].f.successors.items[2]

----------------------------------------------------------------------------
(* The documents as the claims describe them *)

IsArray(value) == value.t = "array"

\* every field the formatter requires is there and of the right type
WellFormed(doc) ==
    /\ IsArray(Index(doc, "functions"))
    /\ \A func \in {Index(doc, "functions").items[k] : k \in DOMAIN Index(doc, "functions").items} :
        /\ IsArray(Index(func, "passes"))
        /\ \A pass \in {Index(func, "passes").items[k] : k \in DOMAIN Index(func, "passes").items} :
            LET blocks == Index(Index(pass, "mir"), "blocks")
            IN  /\ IsArray(blocks)
                /\ \A block \in {blocks.items[k] : k \in DOMAIN blocks.items} :
                    /\ IsArray(Index(block, "instructions"))
                    /\ IsArray(Index(block, "successors"))
                    /\ \A instr \in {Index(block, "instructions").items[k]
                                        : k \in DOMAIN Index(block, "instructions").items} :
                        /\ Index(instr, "opcode").t = "str"
                        /\ Index(instr, "id").t = "num"
                        /\ Index(instr, "id").n >= 0

RECURSIVE Flat(_)
Flat(seqs) == IF seqs = <<>> THEN <<>> ELSE Head(seqs) \o Flat(Tail(seqs))

\* the elements of a well-formed document in document order, a block's
\* successor list (when it has entries) after its instructions
ElementsOfBlock(block) ==
    <<[kind |-> "block", obj |-> block]>>
        \o [k \in DOMAIN Instructions(block) |-> [kind |-> "instruction", obj |-> Instructions(block)[k]]]
        \o (IF block.f.successors.items = <<>> THEN <<>>
            ELSE <<[kind |-> "successors", obj |-> block]>>)

ElementsOfPass(pass) ==
    <<[kind |-> "pass", obj |-> pass]>>
        \o Flat([k \in DOMAIN Blocks(pass) |-> ElementsOfBlock(Blocks(pass)[k])])

ElementsOfFunction(func) ==
    <<[kind |-> "function", obj |-> func]>>
        \o Flat([k \in DOMAIN Passes(func) |-> ElementsOfPass(Passes(func)[k])])

Elements(doc) == Flat([k \in DOMAIN Functions(doc) |-> ElementsOfFunction(Functions(doc)[k])])

JsonText(object, key) == IF key \in DOMAIN object.f THEN Display(object.f[key]) ELSE NullLit

\* what the line of an element must show
Shown(e) ==
    CASE e.kind = "function" -> [kind |-> e.kind, text |-> JsonText(e.obj, "name")]
      [] e.kind = "pass" -> [kind |-> e.kind, text |-> JsonText(e.obj, "name")]
      [] e.kind = "block" -> [kind |-> e.kind, text |-> JsonText(e.obj, "number")]
      [] e.kind = "instruction" ->
            [kind |-> e.kind, text |-> Digits(IdOf(e.obj)) \o <<" ">> \o JsonText(e.obj, "type")]
      [] e.kind = "successors" -> [kind |-> e.kind, text |-> <<>>]

Expected(doc) == [k \in DOMAIN Elements(doc) |-> Shown(Elements(doc)[k])]

After(line, n) == SubSeq(line, n + 1, Len(line))

NonSpaceAt(line) == {k \in 1..Len(line) : line[k] # " "}

RECURSIVE LastWord(_)
LastWord(line) ==
    IF line = <<>> \/ line[Len(line)] = " " THEN <<>>
    ELSE LastWord(SubSeq(line, 1, Len(line) - 1)) \o <<line[Len(line)]>>

\* an output line read back: its kind by how it starts, and what it shows
ReadLine(line) ==
    IF IsPrefix(<<"G", "r", "a", "p", "h", " ", "f", "o", "r", " ", "F", "u", "n", "c", "t", "i", "o", "n", ":", " ">>, line)
    THEN [kind |-> "function", text |-> After(line, 20)]
    ELSE IF IsPrefix(<<" ", " ", "A", "f", "t", "e", "r", " ", "I", "o", "n", " ", "P", "h", "a", "s", "e", " ">>, line)
    THEN [kind |-> "pass", text |-> After(line, 18)]
    ELSE IF IsPrefix(Spaces(6) \o <<"B", "l", "o", "c", "k", "#">>, line)
    THEN [kind |-> "block", text |-> After(line, 12)]
    ELSE IF IsPrefix(Spaces(10) \o <<"S", "u", "c", "c", "e", "s", "s", "o", "r">>, line)
            \/ IsPrefix(<<"S", "u", "c", "c", "e", "s", "s", "o", "r", "s", ":", " ">>, line)
    THEN [kind |-> "successors", text |-> <<>>]
    ELSE IF IsPrefix(Spaces(10), line) /\ \E k \in 1..Len(line) : line[k] = ":"
    THEN LET colon == Min({k \in 1..Len(line) : line[k] = ":"})
             digits == SubSeq(line, Min(NonSpaceAt(line)), colon - 1)
         IN  [kind |-> "instruction", text |-> digits \o <<" ">> \o LastWord(line)]
    ELSE [kind |-> "other", text |-> line]

\* the non-empty lines of a text, read back
Outline(text) ==
    LET lines == SelectSeq(Lines(text), LAMBDA line : line # <<>>)
    IN  [k \in DOMAIN lines |-> ReadLine(lines[k])]

InvalidMessage == "[-] Invalid ion logs json file encountered"

----------------------------------------------------------------------------
(* C1: when a required field is missing or of the wrong type anywhere in   *)
(* the document, parse_graph returns no text, main prints its diagnostic   *)
(* and exits with a non-zero status, and the output file is never written. *)
C1_AllOrNothing ==
    (file.kind = "json" /\ ~WellFormed(file.doc)) =>
        /\ pc # "main_write"
        /\ pc \in {"main_check", "exit"} => ret = None
        /\ outfile \in OutFiles
        /\ status # <<0>>
        /\ pc = "exit" => /\ status = <<255>>
                          /\ stdout = <<InvalidMessage>>

\* the run has ended on a fault in the second function, the first rendered
C1_Witness ==
    /\ pc = "exit"
    /\ file.kind = "json"
    /\ ~WellFormed(file.doc)
    /\ g.i = 2
    /\ Len(g.debugout) > 40
    /\ ins.debugout # <<>>

----------------------------------------------------------------------------
(* Fields that are only shown *)

ShowsNull(e, shown) ==
    CASE e.kind \in {"function", "pass"} /\ "name" \notin DOMAIN e.obj.f -> shown.text = NullLit
      [] e.kind = "block" /\ "number" \notin DOMAIN e.obj.f -> shown.text = NullLit
      [] e.kind = "instruction" /\ "type" \notin DOMAIN e.obj.f -> LastWord(shown.text) = NullLit
      [] OTHER -> TRUE

(* C10: the fields only shown never abort the run: with the required       *)
(* fields (functions, passes, mir.blocks, instructions, successors,        *)
(* opcode, id) in place parse_graph returns the text whatever name, number *)
(* and type are, an absent one is shown as null, and the run ends with the *)
(* file written unless the write itself fails; without them it returns     *)
(* nothing.                                                                *)
C10_DisplayFieldsOptional ==
    (file.kind = "json" /\ pc \in {"main_check", "main_write", "exit"}) =>
        /\ ret.some <=> WellFormed(file.doc)
        /\ WellFormed(file.doc) =>
            /\ InvalidMessage \notin {stdout[k] : k \in DOMAIN stdout}
            /\ Len(Outline(ret.val)) = Len(Elements(file.doc))
            /\ \A k \in DOMAIN Elements(file.doc) :
                  ShowsNull(Elements(file.doc)[k], Outline(ret.val)[k])
            /\ pc = "exit" =>
                  \/ status = <<0>> /\ outfile = [exists |-> TRUE, data |-> ret.val]
                  \/ status = <<255>> /\ stdout = <<"[-] unable to write output">>

\* the file is written for a document whose function has no name
C10_Witness ==
    /\ pc = "exit"
    /\ status = <<0>>
    /\ file.kind = "json"
    /\ WellFormed(file.doc)
    /\ \E k \in DOMAIN Elements(file.doc) :
          /\ Elements(file.doc)[k].kind = "function"
          /\ "name" \notin DOMAIN Elements(file.doc)[k].obj.f
    /\ \E k \in DOMAIN Elements(file.doc) : Elements(file.doc)[k].kind = "instruction"

----------------------------------------------------------------------------
(* Document order *)

C6_Rendered ==
    (pc = "main_check" /\ ret.some) => Outline(ret.val) = Expected(file.doc)

C6_AppendOnly ==
    /\ pc # "pg_entry" => IsPrefix(g.debugout, g.debugout')
    /\ pc # "pp_entry" => IsPrefix(p.debugout, p.debugout')
    /\ pc # "pb_entry" => IsPrefix(b.debugout, b.debugout')
    /\ pc # "pi_entry" => IsPrefix(ins.debugout, ins.debugout')

(* C6: for a well-formed document the text holds, in document order and    *)
(* once each, a header per function, per pass and per block, a line per    *)
(* instruction and the successor summary of each block that has one        *)
(* (C6_Rendered); and no buffer is changed other than by appending to it   *)
(* (C6_AppendOnly).                                                        *)
C6_DocumentOrder == []C6_Rendered /\ [][C6_AppendOnly]_vars

\* two functions rendered, the first with an instruction
C6_Witness ==
    /\ pc = "main_check"
    /\ ret.some
    /\ Len(Functions(file.doc)) = 2
    /\ \E k \in DOMAIN Expected(file.doc) : Expected(file.doc)[k].kind = "instruction"
    /\ Expected(file.doc)[Len(Expected(file.doc))].kind = "function"

----------------------------------------------------------------------------
(* The stages of main *)

Stage(label) ==
    CASE label = "main_read" -> 1
      [] label = "main_parse" -> 2
      [] label = "main_format" -> 3
      [] label = "main_check" -> 5
      [] label = "main_write" -> 6
      [] label = "exit" -> 7
      [] OTHER -> 4

C2_Stages ==
    /\ pc = "exit" <=> status # <<>>
    /\ file.kind = "unreadable" =>
          /\ pc \in {"main_read", "exit"}
          /\ iondata = Null
          /\ pc = "exit" => status = <<255>> /\ stdout = <<"[-] Not able to read json file">>
    /\ file.kind = "malformed" =>
          /\ pc \in {"main_read", "main_parse", "exit"}
          /\ iondata = Null /\ g = g0
          /\ pc = "exit" => status = <<255>> /\ stdout = <<"[-] Not able to parse ion.json">>
    /\ status = <<0>> => ret.some /\ outfile = [exists |-> TRUE, data |-> ret.val]

C2_Step ==
    /\ Stage(pc') >= Stage(pc)
    /\ pc' # pc /\ Stage(pc') # 4 => Stage(pc') > Stage(pc)
    /\ pc' = "pg_entry" => pc = "main_format"
    /\ outfile' # outfile => pc = "main_write"
    /\ file.kind # "json" => outfile' = outfile

----------------------------------------------------------------------------
(* C8: parse_graph run a second time on the same document returns what it  *)
(* returned the first time: nothing a run leaves behind reaches the next.  *)
C8_Deterministic ==
    (first.ran /\ pc = "done" /\ iondata = first.doc) => ret = first.ret

\* the second run of a document with an instruction has returned its text
C8_Witness ==
    /\ first.ran
    /\ pc = "done"
    /\ iondata = first.doc
    /\ ret.some
    /\ ins.debugout # <<>>
    /\ g.i = 3

----------------------------------------------------------------------------
(* The lir tier *)

WithoutLir(doc) ==
    LET Pass(pass) == IF pass.t = "object" THEN Without(pass, "lir") ELSE pass
        Func(func) ==
            IF IsArray(Index(func, "passes"))
            THEN With(func, "passes", Arr([k \in DOMAIN Passes(func) |-> Pass(Passes(func)[k])]))
            ELSE func
    IN  IF IsArray(Index(doc, "functions"))
        THEN With(doc, "functions", Arr([k \in DOMAIN Functions(doc) |-> Func(Functions(doc)[k])]))
        ELSE doc

(* C7: two documents that differ only in the `lir` of their passes get the *)
(* same outcome from parse_graph: the same text, or no text for both; a    *)
(* `lir` is never an error.                                                *)
C7_LirIgnored ==
    (first.ran /\ pc = "done" /\ WithoutLir(iondata) = WithoutLir(first.doc)) =>
        /\ ret = first.ret
        /\ ret.some <=> WellFormed(WithoutLir(iondata))

\* the second run, on the document with a lir tier added, has returned text
C7_Witness ==
    /\ first.ran
    /\ pc = "done"
    /\ iondata # first.doc
    /\ ret.some
    /\ ins.debugout # <<>>
    /\ \E fi \in DOMAIN Functions(iondata) : \E pi \in DOMAIN Passes(Functions(iondata)[fi]) :
          /\ IsArray(Index(Index(Passes(Functions(iondata)[fi])[pi], "lir"), "blocks"))
          /\ ~("lir" \in DOMAIN Passes(Functions(first.doc)[fi])[pi].f)

=============================================================================
